---- MODULE Spec2Model ----
(***************************************************************************)
(* A model of create_structure.py: the tree-text parser (parse_tree), the  *)
(* directory snapshotter (build_actual_tree), the structure materializer   *)
(* (create_structure) and the orchestration in main.                       *)
(*                                                                         *)
(* Text is a sequence of characters (one-character strings); the two       *)
(* connector glyph runs (branch, last branch) are written as the single    *)
(* tokens "|-- " and "+-- ", and the vertical bar glyph as "|".            *)
(* A path is a sequence of path components, each a sequence of characters. *)
(***************************************************************************)
EXTENDS Naturals, Sequences, FiniteSets, TLC

VARIABLES
    pc,           \* position of the running program
    tree_str,     \* parse_tree: the raw text, a sequence of raw lines
    lines,        \* parse_tree: the non-blank lines, right-trimmed
    idx,          \* parse_tree: index in lines of the next line of the loop
    heap,         \* the dict objects parse_tree has allocated, by identity
    stack,        \* parse_tree: the stack of <<depth, container>>
    ins,          \* log: for each processed line, where it was inserted
    tree,         \* the value parse_tree / build_actual_tree returned
    fs,           \* the filesystem: a set of <<path, kind>>
    fs0,          \* log: the filesystem when the current call started
    exc,          \* the exception in flight, "" when there is none
    structure,    \* create_structure: the structure argument of the call
    location,     \* create_structure: the target_path argument of the call
    create_files, \* create_structure: the create_files argument
    frames,       \* create_structure: the recursion's pending loops
    calls,        \* log: how many create_structure calls have completed
    baseline,     \* main: what args.baseline names
    folders_only, \* main: args.folders_only
    printed       \* main: the messages printed, in order

vars == <<pc, tree_str, lines, idx, heap, stack, ins, tree, fs, fs0, exc,
          structure, location, create_files, frames, calls, baseline, folders_only,
          printed>>

parseVars == <<tree_str, lines, idx, heap, stack, ins>>
createVars == <<structure, location, create_files, frames, calls>>

(***************************************************************************)
(* Bounds of the model.                                                    *)
(***************************************************************************)
\* the longest list of entry lines after the root line
MaxLines == 3

(***************************************************************************)
(* Characters and text.                                                    *)
(***************************************************************************)
Connectors == {"|-- ", "+-- "}

\* code points: " " = 32, "/" = 47, "a" = 97, "b" = 98, "r" = 114,
\* "t" = 116; the glyphs are beyond ASCII.
Ord(c) ==
    CASE c = " " -> 32
      [] c = "/" -> 47
      [] c = "a" -> 97
      [] c = "b" -> 98
      [] c = "r" -> 114
      [] c = "t" -> 116
      [] OTHER -> 9000

\* str.strip() and str.rstrip() without argument strip whitespace.
Whitespace == {" "}

Last(s) == s[Len(s)]
Front(s) == SubSeq(s, 1, Len(s) - 1)

RECURSIVE LStrip(_, _)
LStrip(s, cs) ==
    IF s # <<>> /\ Head(s) \in cs THEN LStrip(Tail(s), cs) ELSE s

\* A connector token ends in a space: right-trimming whitespace cuts that
\* space off and leaves the three glyphs, which are no connector any more.
RECURSIVE RStrip(_, _)
RStrip(s, cs) ==
    IF s = <<>> THEN s
    ELSE IF Last(s) \in cs THEN RStrip(Front(s), cs)
    ELSE IF Last(s) \in Connectors /\ " " \in cs
         THEN Append(Front(s), "|--")
    ELSE s

Strip(s, cs) == LStrip(RStrip(s, cs), cs)

EndsWith(s, c) == s # <<>> /\ Last(s) = c

(***************************************************************************)
(* Python dict: insertion-ordered, a sequence of <<key, value>> with       *)
(* unique keys. A value is None, a nested dict, or (in the heap of the    *)
(* parser) a reference to a dict object.                                  *)
(***************************************************************************)
NoneV == [t |-> "None"]
Dict(items) == [t |-> "dict", items |-> items]
Ref(c) == [t |-> "ref", id |-> c]

Keys(d) == {d[k][1] : k \in 1..Len(d)}
HasKey(d, name) == \E k \in 1..Len(d) : d[k][1] = name
Get(d, name) == d[CHOOSE k \in 1..Len(d) : d[k][1] = name][2]

\* a wrong assignment: the first value stored under a key stays
DictSetKeepFirst(d, name, v) ==
    IF HasKey(d, name) THEN d ELSE Append(d, <<name, v>>)

\* d[name] = v: an existing key keeps its place and takes the new value
DictSet(d, name, v) ==
    IF HasKey(d, name)
    THEN [k \in 1..Len(d) |-> IF d[k][1] = name THEN <<name, v>> ELSE d[k]]
    ELSE Append(d, <<name, v>>)

(***************************************************************************)
(* parse_tree                                                              *)
(***************************************************************************)
IndentChars == {" ", "|"}

\* indent_str: the longest leading run of spaces and vertical bars
RECURSIVE IndentLen(_)
IndentLen(line) ==
    IF line # <<>> /\ Head(line) \in IndentChars
    THEN 1 + IndentLen(Tail(line)) ELSE 0

IndentWidth == 4

Level(line) == IndentLen(line) \div IndentWidth

\* re.sub(r'^[ |]*(connector)', '', line)
LineWithoutIndent(line) ==
    LET n == IndentLen(line)
    IN IF n < Len(line) /\ line[n + 1] \in Connectors
       THEN SubSeq(line, n + 2, Len(line))
       ELSE line

RawName(line) == Strip(LineWithoutIndent(line), Whitespace)
IsFolder(line) == EndsWith(RawName(line), "/")
Name(line) ==
    IF IsFolder(line) THEN RStrip(RawName(line), {"/"}) ELSE RawName(line)

\* lines = [line.rstrip() for line in tree_str.splitlines() if line.strip()]
RECURSIVE NonBlankLines(_)
NonBlankLines(raw) ==
    IF raw = <<>> THEN <<>>
    ELSE IF Strip(Head(raw), Whitespace) = <<>> THEN NonBlankLines(Tail(raw))
    ELSE <<RStrip(Head(raw), Whitespace)>> \o NonBlankLines(Tail(raw))

\* a wrong root name: only the trailing slashes go
RootNameTrailingOnly(ls) == RStrip(Strip(ls[1], Whitespace), {"/"})

\* root = lines[0].strip().strip("/")
RootName(ls) == Strip(Strip(ls[1], Whitespace), {"/"})

\* wrong loops: one that keeps an entry of the same depth, and one that pops
\* an entry of the depth just above
RECURSIVE PopWhileStrict(_, _)
PopWhileStrict(st, level) ==
    IF st # <<>> /\ Last(st)[1] > level + 1
    THEN PopWhileStrict(Front(st), level) ELSE st

RECURSIVE PopWhileEager(_, _)
PopWhileEager(st, level) ==
    IF st # <<>> /\ Last(st)[1] >= level
    THEN PopWhileEager(Front(st), level) ELSE st

\* while stack and stack[-1][0] >= level + 1: stack.pop()
RECURSIVE PopWhile(_, _)
PopWhile(st, level) ==
    IF st # <<>> /\ Last(st)[1] >= level + 1
    THEN PopWhile(Front(st), level) ELSE st

\* the dict object of tree[root]
RootId == 1

\* the nested value of the dict object c
RECURSIVE Nested(_, _)
Nested(hp, c) ==
    [k \in 1..Len(hp[c]) |->
        <<hp[c][k][1],
          IF hp[c][k][2] = NoneV THEN NoneV
          ELSE Dict(Nested(hp, hp[c][k][2].id))>>]

\* the dict objects reachable from the dict object c, c included
RECURSIVE Reach(_, _)
Reach(hp, c) ==
    {c} \cup UNION {Reach(hp, hp[c][k][2].id) :
                      k \in {j \in 1..Len(hp[c]) : hp[c][j][2] # NoneV}}

ParseStart ==
    /\ pc = "parse_tree"
    /\ lines' = NonBlankLines(tree_str)
    /\ IF lines' = <<>>
       THEN /\ tree' = <<>>
            /\ pc' = "parsed"
            /\ UNCHANGED <<heap, stack, idx>>
       ELSE /\ heap' = <<<<>>>>
            /\ stack' = <<<<0, RootId>>>>
            /\ idx' = 2
            /\ pc' = "parse_loop"
            /\ tree' = <<>>
    /\ ins' = <<>>
    /\ UNCHANGED <<tree_str, fs, fs0, exc, baseline, folders_only, printed>>
    /\ UNCHANGED createVars

ParseLine ==
    /\ pc = "parse_loop"
    /\ idx <= Len(lines)
    /\ LET line == lines[idx]
           level == Level(line)
           name == Name(line)
           popped == PopWhile(stack, level)
           parent == IF popped # <<>> THEN Last(popped)[2] ELSE RootId
           new == Len(heap) + 1
       IN /\ IF IsFolder(line)
             THEN /\ heap' = Append(
                        [heap EXCEPT ![parent] = DictSet(@, name, Ref(new))],
                        <<>>)
                  /\ stack' = Append(popped, <<level + 1, new>>)
             ELSE /\ heap' = [heap EXCEPT ![parent] = DictSet(@, name, NoneV)]
                  /\ stack' = popped
          /\ ins' = Append(ins, [parent |-> parent,
                                 id |-> IF IsFolder(line) THEN new ELSE 0,
                                 fallback |-> popped = <<>>])
    /\ idx' = idx + 1
    /\ UNCHANGED <<pc, tree_str, lines, tree, fs, fs0, exc, baseline,
                   folders_only, printed>>
    /\ UNCHANGED createVars

ParseReturn ==
    /\ pc = "parse_loop"
    /\ idx > Len(lines)
    /\ tree' = <<<<RootName(lines), Dict(Nested(heap, RootId))>>>>
    /\ pc' = "parsed"
    /\ UNCHANGED <<fs, fs0, exc, baseline, folders_only, printed>>
    /\ UNCHANGED parseVars
    /\ UNCHANGED createVars

(***************************************************************************)
(* The filesystem: a set of <<path, kind>>, kind "dir", "data" (a regular  *)
(* file with content) or "empty" (a zero-byte regular file). The root      *)
(* directory <<>> always exists. An entry's parent is a directory.         *)
(***************************************************************************)
IsDir(f, p) == p = <<>> \/ <<p, "dir">> \in f
IsFile(f, p) == <<p, "data">> \in f \/ <<p, "empty">> \in f
\* os.path.exists
Exists(f, p) == IsDir(f, p) \/ IsFile(f, p)

Prefix(p, k) == SubSeq(p, 1, k)
Parent(p) == Front(p)

\* the components of a path string: the runs between slashes
RECURSIVE Components(_)
Components(name) ==
    IF name = <<>> THEN <<>>
    ELSE IF Head(name) = "/" THEN Components(Tail(name))
    ELSE LET n == CHOOSE k \in 1..Len(name) :
                    /\ \A j \in 1..k : name[j] # "/"
                    /\ k = Len(name) \/ name[k + 1] = "/"
         IN <<SubSeq(name, 1, n)>> \o Components(SubSeq(name, n + 1, Len(name)))

\* os.path.join(target_path, name): a name that starts with a slash is
\* absolute and drops target_path
PathJoin(target, name) ==
    IF name # <<>> /\ Head(name) = "/" THEN Components(name)
    ELSE target \o Components(name)

\* os.makedirs(p, exist_ok=True): fails when p or a directory on the way to
\* it is a regular file, and then creates nothing
MakeDirs(f, p) ==
    IF \E k \in 1..Len(p) : IsFile(f, Prefix(p, k))
    THEN [exc |-> IF IsFile(f, p) THEN "FileExistsError"
                  ELSE "NotADirectoryError",
          fs |-> f]
    ELSE [exc |-> "",
          fs |-> f \cup { <<Prefix(p, k), "dir">> : k \in 1..Len(p) }]

\* open(p, 'w').close(): creates the file, or truncates the one there
OpenW(f, p) ==
    IF p = <<>> \/ IsDir(f, p) THEN [exc |-> "IsADirectoryError", fs |-> f]
    ELSE IF ~ Exists(f, Parent(p)) THEN [exc |-> "FileNotFoundError", fs |-> f]
    ELSE IF ~ IsDir(f, Parent(p)) THEN [exc |-> "NotADirectoryError", fs |-> f]
    ELSE [exc |-> "", fs |-> (f \ {<<p, "data">>}) \cup {<<p, "empty">>}]

(***************************************************************************)
(* create_structure                                                        *)
(***************************************************************************)
\* wrong leaf code: no test for an existing path before open(..., 'w')
CreateLeafTruncating(f, target, name, cf) ==
    IF ~ cf THEN [exc |-> "", fs |-> f]
    ELSE LET made == MakeDirs(f, target)
         IN IF made.exc # "" THEN made
            ELSE OpenW(made.fs, PathJoin(target, name))

\* wrong leaf code: no test of create_files
CreateLeafIgnoringFlag(f, target, name, cf) ==
    LET made == MakeDirs(f, target)
    IN IF made.exc # "" THEN made
       ELSE IF Exists(made.fs, PathJoin(target, name)) THEN made
       ELSE OpenW(made.fs, PathJoin(target, name))

\* wrong leaf code: the create_files test inverted
CreateLeafInverted(f, target, name, cf) ==
    IF cf THEN [exc |-> "", fs |-> f]
    ELSE LET made == MakeDirs(f, target)
         IN IF made.exc # "" THEN made
            ELSE IF Exists(made.fs, PathJoin(target, name)) THEN made
            ELSE OpenW(made.fs, PathJoin(target, name))

\* the else branch of the loop body: content is None
CreateLeaf(f, target, name, cf) ==
    IF ~ cf THEN [exc |-> "", fs |-> f]
    ELSE LET made == MakeDirs(f, target)
         IN IF made.exc # "" THEN made
            ELSE IF Exists(made.fs, PathJoin(target, name)) THEN made
            ELSE OpenW(made.fs, PathJoin(target, name))

\* the loops of the recursion that have run out return
RECURSIVE Unwind(_)
Unwind(fr) ==
    IF fr # <<>> /\ Last(fr).items = <<>> THEN Unwind(Front(fr)) ELSE fr

\* create_structure(structure, target_path, create_files) is called
CreateCall ==
    /\ pc = "call"
    /\ fs0' = fs
    /\ frames' = Unwind(<<[items |-> structure, target |-> location]>>)
    /\ pc' = IF frames' = <<>> THEN "returned" ELSE "create"
    /\ calls' = IF frames' = <<>> THEN calls + 1 ELSE calls
    /\ UNCHANGED <<tree, fs, exc, baseline, folders_only, printed, structure,
                   location, create_files>>
    /\ UNCHANGED parseVars

\* one pass of the loop body, in the innermost running call
CreateItem ==
    /\ pc = "create"
    /\ LET top == Last(frames)
           name == Head(top.items)[1]
           content == Head(top.items)[2]
           current_path == PathJoin(top.target, name)
           rest == Append(Front(frames), [top EXCEPT !.items = Tail(@)])
           done == IF content.t = "dict"
                   THEN MakeDirs(fs, current_path)
                   ELSE CreateLeaf(fs, top.target, name, create_files)
       IN /\ fs' = done.fs
          /\ exc' = done.exc
          /\ IF done.exc # ""
             THEN /\ frames' = <<>>
                  /\ pc' = "raised"
                  /\ calls' = calls
             ELSE /\ frames' = Unwind(
                        IF content.t = "dict"
                        THEN Append(rest, [items |-> content.items,
                                           target |-> current_path])
                        ELSE rest)
                  /\ pc' = IF frames' = <<>> THEN "returned" ELSE "create"
                  /\ calls' = IF frames' = <<>> THEN calls + 1 ELSE calls
    /\ UNCHANGED <<tree, fs0, baseline, folders_only, printed, structure,
                   location, create_files>>
    /\ UNCHANGED parseVars

(***************************************************************************)
(* build_actual_tree                                                       *)
(***************************************************************************)
RECURSIVE LexLess(_, _)
\* a < b for strings: by code point, a proper prefix first
LexLess(a, b) ==
    IF b = <<>> THEN FALSE
    ELSE IF a = <<>> THEN TRUE
    ELSE IF Head(a) # Head(b) THEN Ord(Head(a)) < Ord(Head(b))
    ELSE LexLess(Tail(a), Tail(b))

RECURSIVE InsertSorted(_, _)
InsertSorted(s, x) ==
    IF s = <<>> THEN <<x>>
    ELSE IF LexLess(x, Head(s)) THEN <<x>> \o s
    ELSE <<Head(s)>> \o InsertSorted(Tail(s), x)

\* a wrong loop header: the names are taken in the order of the walk
Unsorted(s) == s

\* sorted(dirs), sorted(files)
RECURSIVE Sorted(_)
Sorted(s) == IF s = <<>> THEN <<>> ELSE InsertSorted(Sorted(Tail(s)), Head(s))

\* the names the filesystem lists in directory p, in the order `order` of
\* the directory scan, that are directories (isdir) or are not
RECURSIVE Listed(_, _, _, _)
Listed(f, p, order, isdir) ==
    IF order = <<>> THEN <<>>
    ELSE LET q == Append(p, Head(order))
             here == IF isdir THEN IsDir(f, q) ELSE IsFile(f, q)
         IN (IF here THEN <<Head(order)>> ELSE <<>>)
            \o Listed(f, p, Tail(order), isdir)

\* os.walk(folder), top down: <<parts, dirs, files>> for folder and then for
\* the subdirectories in the order of dirs; parts is the path below folder
RECURSIVE Walk(_, _, _, _)
RECURSIVE WalkAll(_, _, _, _, _)
Walk(f, folder, parts, order) ==
    LET dirs == Listed(f, folder \o parts, order, TRUE)
        files == Listed(f, folder \o parts, order, FALSE)
    IN <<[parts |-> parts, dirs |-> dirs, files |-> files]>>
       \o WalkAll(f, folder, parts, order, dirs)
WalkAll(f, folder, parts, order, dirs) ==
    IF dirs = <<>> THEN <<>>
    ELSE Walk(f, folder, Append(parts, Head(dirs)), order)
         \o WalkAll(f, folder, parts, order, Tail(dirs))

RECURSIVE SetAll(_, _, _)
\* for n in names: node[n] = v
SetAll(node, names, v) ==
    IF names = <<>> THEN node
    ELSE SetAll(DictSet(node, Head(names), v), Tail(names), v)

RECURSIVE VisitAt(_, _, _, _)
\* one pass of the walk loop: go down parts with setdefault, then store the
\* sorted directories and the sorted files in the node reached
VisitAt(node, parts, dirs, files) ==
    IF parts = <<>>
    THEN SetAll(SetAll(node, Sorted(dirs), Dict(<<>>)), Sorted(files), NoneV)
    ELSE LET part == Head(parts)
             with == IF HasKey(node, part) THEN node
                     ELSE Append(node, <<part, Dict(<<>>)>>)
         IN DictSet(with, part,
                Dict(VisitAt(Get(with, part).items, Tail(parts), dirs, files)))

RECURSIVE VisitEach(_, _)
VisitEach(node, walk) ==
    IF walk = <<>> THEN node
    ELSE VisitEach(VisitAt(node, Head(walk).parts, Head(walk).dirs,
                           Head(walk).files),
                   Tail(walk))

\* os.path.basename(os.path.abspath(folder))
BaseName(folder) == IF folder = <<>> THEN <<>> ELSE Last(folder)

\* os.walk yields nothing for a path that is no directory
BuildActualTree(f, folder, order) ==
    IF ~ Exists(f, folder) THEN <<>>
    ELSE <<<<BaseName(folder),
             Dict(IF IsDir(f, folder)
                  THEN VisitEach(<<>>, Walk(f, folder, <<>>, order))
                  ELSE <<>>)>>>>

(***************************************************************************)
(* The inputs of the parser.                                               *)
(***************************************************************************)
Bar(k) == IF k % 4 = 1 THEN "|" ELSE " "
Indent(n) == [k \in 1..n |-> Bar(k)]

RootLines ==
    { <<"r">>, <<"r", "/">>, <<"/", "r", "/", "/">>, <<" ", "/", "r", " ">> }

Blank == <<" ", " ">>

Heads == { <<>>, <<Blank>> } \cup { <<r>> : r \in RootLines }
         \cup { <<Blank, <<"r", "/">>, Blank>> }

EntryTexts == { <<"a">>, <<"a", "/">>, <<"b", "/", "/", " ">> }
Indents == {0, 4, 6, 8}

EntryLines ==
    { Indent(n) \o <<"|-- ">> \o t : n \in Indents, t \in EntryTexts }

SeqsUpTo(S, n) == UNION { [1..k -> S] : k \in 0..n }

\* every head with at most one entry line, and the plain root line with
\* every list of at most MaxLines entry lines
ParseInputs ==
    { h \o e : h \in Heads, e \in SeqsUpTo(EntryLines, 1) }
    \cup { <<<<"r", "/">>>> \o e : e \in SeqsUpTo(EntryLines, MaxLines) }

InitParse ==
    /\ pc = "parse_tree"
    /\ tree_str \in ParseInputs
    /\ lines = <<>>
    /\ idx = 0
    /\ heap = <<>>
    /\ stack = <<>>
    /\ ins = <<>>
    /\ tree = <<>>
    /\ fs = {}
    /\ fs0 = {}
    /\ exc = ""
    /\ structure = <<>>
    /\ location = <<>>
    /\ create_files = TRUE
    /\ frames = <<>>
    /\ calls = 0
    /\ baseline = [kind |-> "text"]
    /\ folders_only = FALSE
    /\ printed = <<>>

NextParse == ParseStart \/ ParseLine \/ ParseReturn

SpecParse == InitParse /\ [][NextParse]_vars

(***************************************************************************)
(* The inputs of create_structure and build_actual_tree called directly.   *)
(***************************************************************************)
\* how many times create_structure is called with the same arguments
MaxCalls == 2

Nt == <<"t">>
Nr == <<"r">>
Na == <<"a">>
Nb == <<"b">>
Nab == <<"a", "/", "b">>

Absent == [t |-> "absent"]
Item(name, v) == IF v = Absent THEN <<>> ELSE <<<<name, v>>>>

UnderA == { Absent, NoneV, Dict(<<>>), Dict(Item(Nb, NoneV)) }
Second ==
    { <<>> } \cup { Item(n, v) : n \in {Nb, Nab}, v \in {NoneV, Dict(<<>>)} }
UnderR == { Item(Na, a) \o s : a \in UnderA, s \in Second }

\* structures with one root container, with a root leaf, with two top-level
\* keys, and the empty one
Structures ==
    { Item(Nr, r) \o Item(Na, x) :
        r \in {Absent, NoneV} \cup { Dict(u) : u \in UnderR },
        x \in {Absent, NoneV} }

Location == <<Nt>>

FsPaths ==
    { <<Nt>>, <<Nt, Nr>>, <<Nt, Nr, Na>>, <<Nt, Nr, Nb>>, <<Nt, Nr, Na, Nb>> }

\* the filesystems over FsPaths: one kind for a path, under a directory
InitialFs ==
    { f \in SUBSET (FsPaths \X {"dir", "data"}) :
        \A e \in f :
            /\ IsDir(f, Parent(e[1]))
            /\ \A d \in f : d[1] = e[1] => d = e }

\* two orders in which a directory scan may list names
ScanOrders == { <<Na, Nb, Nr, Nt>>, <<Nt, Nr, Nb, Na>> }

InitCreate ==
    /\ pc = "call"
    /\ structure \in Structures
    /\ location = Location
    /\ create_files \in BOOLEAN
    /\ fs \in InitialFs
    /\ fs0 = fs
    /\ frames = <<>>
    /\ calls = 0
    /\ exc = ""
    /\ tree = <<>>
    /\ baseline = [kind |-> "none"]
    /\ folders_only = FALSE
    /\ printed = <<>>
    /\ tree_str = <<>>
    /\ lines = <<>>
    /\ idx = 0
    /\ heap = <<>>
    /\ stack = <<>>
    /\ ins = <<>>

\* the caller calls create_structure again with the same arguments
CreateAgain ==
    /\ pc = "returned"
    /\ calls < MaxCalls
    /\ pc' = "call"
    /\ UNCHANGED <<tree, fs, fs0, exc, baseline, folders_only, printed>>
    /\ UNCHANGED parseVars
    /\ UNCHANGED createVars

\* the folders a caller snapshots: the target and the first root under it
SnapshotFolders ==
    {location} \cup
    (IF structure = <<>> THEN {} ELSE {PathJoin(location, structure[1][1])})

\* build_actual_tree(folder) is called, the directory scans listing names in
\* one of the orders
Snapshot ==
    /\ pc \in {"returned", "snapshotted"}
    /\ \E folder \in SnapshotFolders, order \in ScanOrders :
         /\ baseline' = [kind |-> "dir", path |-> folder]
         /\ tree' = BuildActualTree(fs, folder, order)
    /\ pc' = "snapshotted"
    /\ UNCHANGED <<fs, fs0, exc, folders_only, printed>>
    /\ UNCHANGED parseVars
    /\ UNCHANGED createVars

NextCreate == CreateCall \/ CreateItem \/ CreateAgain \/ Snapshot

SpecCreate == InitCreate /\ [][NextCreate]_vars

(***************************************************************************)
(* main                                                                    *)
(* args.baseline is a readable text file with its text, a file that does   *)
(* not decode as UTF-8, or a path of the filesystem (a directory when the  *)
(* filesystem has one there, and nothing otherwise).                       *)
(***************************************************************************)
ErrRead == "Error reading baseline file"
ErrBaseline == "Error: Baseline argument must be a valid file or folder path."
ErrCreate == "Error during structure creation"
Success == "Structure creation completed successfully."

\* os.path.isfile(args.baseline), os.path.isdir(args.baseline)
IsFileArg(b) == b.kind \in {"file", "undecodable"}
IsDirArg(f, b) == b.kind = "path" /\ IsDir(f, b.path)

\* open(args.baseline, "r", encoding="utf-8") and f.read(): the exception
\* raised, "" when the text is read
ReadError(f, b) ==
    CASE b.kind = "file" -> ""
      [] b.kind = "undecodable" -> "UnicodeDecodeError"
      [] IsDirArg(f, b) -> "IsADirectoryError"
      [] OTHER -> "FileNotFoundError"

\* a narrower handler: except FileNotFoundError
IsFileNotFoundError(e) == e = "FileNotFoundError"

\* except Exception: every exception of the model is an Exception
IsException(e) ==
    e \in {"FileExistsError", "NotADirectoryError", "FileNotFoundError",
           "IsADirectoryError", "UnicodeDecodeError"}

\* lines 122-128: the first read of the baseline
MainRead ==
    /\ pc = "main"
    /\ IF ReadError(fs, baseline) = ""
       THEN /\ tree_str' = baseline.text
            /\ pc' = "determine"
            /\ printed' = printed
       ELSE /\ IsException(ReadError(fs, baseline))
            /\ printed' = Append(printed, ErrRead)
            /\ pc' = "exit"
            /\ tree_str' = tree_str
    /\ UNCHANGED <<lines, idx, heap, stack, ins, tree, fs, fs0, exc, baseline,
                   folders_only>>
    /\ UNCHANGED createVars

\* lines 131-143: the structure comes from parse_tree for a file and from
\* build_actual_tree for a directory
MainDetermine ==
    /\ pc = "determine"
    /\ CASE IsFileArg(baseline) ->
              IF ReadError(fs, baseline) = ""
              THEN /\ tree_str' = baseline.text
                   /\ pc' = "parse_tree"
                   /\ UNCHANGED <<tree, printed>>
              ELSE /\ printed' = Append(printed, ErrRead)
                   /\ pc' = "exit"
                   /\ UNCHANGED <<tree, tree_str>>
         [] IsDirArg(fs, baseline) ->
              /\ \E order \in ScanOrders :
                    tree' = BuildActualTree(fs, baseline.path, order)
              /\ pc' = "parsed"
              /\ UNCHANGED <<tree_str, printed>>
         [] OTHER ->
              /\ printed' = Append(printed, ErrBaseline)
              /\ pc' = "exit"
              /\ UNCHANGED <<tree, tree_str>>
    /\ UNCHANGED <<lines, idx, heap, stack, ins, fs, fs0, exc, baseline,
                   folders_only>>
    /\ UNCHANGED createVars

\* lines 145-155: create_structure(structure, args.location, create_files)
MainCreate ==
    /\ pc = "parsed"
    /\ structure' = tree
    /\ create_files' = ~ folders_only
    /\ pc' = "call"
    /\ UNCHANGED <<tree, fs, fs0, exc, baseline, printed, folders_only,
                   location, frames, calls>>
    /\ UNCHANGED parseVars

\* line 156
MainSuccess ==
    /\ pc = "returned"
    /\ printed' = Append(printed, Success)
    /\ pc' = "exit"
    /\ UNCHANGED <<tree, fs, fs0, exc, baseline, folders_only>>
    /\ UNCHANGED parseVars
    /\ UNCHANGED createVars

\* lines 157-158: the handler takes the exception, or it leaves main
MainCatch ==
    /\ pc = "raised"
    /\ IF IsException(exc)
       THEN /\ printed' = Append(printed, ErrCreate)
            /\ exc' = ""
            /\ pc' = "exit"
       ELSE /\ pc' = "crashed"
            /\ UNCHANGED <<printed, exc>>
    /\ UNCHANGED <<tree, fs, fs0, baseline, folders_only>>
    /\ UNCHANGED parseVars
    /\ UNCHANGED createVars

Entry(n, text) == Indent(n) \o <<"|-- ">> \o text

MainTexts ==
    { << <<"r", "/">>, Entry(0, <<"a", "/">>), Entry(4, <<"b">>),
         Entry(0, <<"b", "/", "/">>) >>,
      << <<"r">>, Entry(0, <<"b">>), Entry(0, <<"a", "/">>),
         Entry(8, <<"b", "/">>) >>,
      << <<"/", "r", "/">> >>,
      << Blank >> }

Baselines ==
    { [kind |-> "file", text |-> x] : x \in MainTexts }
    \cup { [kind |-> "undecodable"] }
    \cup { [kind |-> "path", path |-> p] : p \in { <<Nt, Nr>>, <<Nt, Nr, Na>> } }

InitMain ==
    /\ pc = "main"
    /\ baseline \in Baselines
    /\ folders_only \in BOOLEAN
    /\ location = Location
    /\ fs \in InitialFs
    /\ baseline.kind = "path" => ~ IsFile(fs, baseline.path)
    /\ fs0 = fs
    /\ structure = <<>>
    /\ create_files = TRUE
    /\ frames = <<>>
    /\ calls = 0
    /\ exc = ""
    /\ tree = <<>>
    /\ printed = <<>>
    /\ tree_str = <<>>
    /\ lines = <<>>
    /\ idx = 0
    /\ heap = <<>>
    /\ stack = <<>>
    /\ ins = <<>>

NextMain ==
    \/ MainRead \/ MainDetermine
    \/ ParseStart \/ ParseLine \/ ParseReturn
    \/ MainCreate \/ CreateCall \/ CreateItem
    \/ MainSuccess \/ MainCatch

Spec == InitMain /\ [][NextMain]_vars

(***************************************************************************)
(* Properties of parse_tree. Entry k is the k-th line after the root line, *)
(* lines[k + 1]; ins[k] logs the dict object it was inserted into and the  *)
(* dict object it created (0 for a file line).                             *)
(***************************************************************************)
EntryLevel(k) == Level(lines[k + 1])
EntryName(k) == Name(lines[k + 1])
EntryIsFolder(k) == IsFolder(lines[k + 1])

Max(S) == CHOOSE x \in S : \A y \in S : y <= x

\* the folder lines before entry k that are shallower than it and are not
\* followed, before k, by a line at their level or above it
OpenFolders(k) ==
    { j \in 1..(k - 1) :
        /\ EntryIsFolder(j)
        /\ EntryLevel(j) < EntryLevel(k)
        /\ \A m \in (j + 1)..(k - 1) : EntryLevel(m) > EntryLevel(j) }

ExpectedParent(k) ==
    IF OpenFolders(k) = {} THEN RootId ELSE ins[Max(OpenFolders(k))].id

\* C1: every entry is inserted into the container of the nearest preceding
\* folder line that is strictly shallower and has no line at its level or
\* above it in between, and into the root container when there is none; the
\* entry is then a child of that container.
C1_ParentIsNearestOpenFolder ==
    /\ \A k \in 1..Len(ins) : ins[k].parent = ExpectedParent(k)
    /\ ins # <<>> =>
         LET k == Len(ins)
         IN /\ HasKey(heap[ExpectedParent(k)], EntryName(k))
            /\ Get(heap[ExpectedParent(k)], EntryName(k)) =
                 IF EntryIsFolder(k) THEN Ref(ins[k].id) ELSE NoneV

\* a level-1 entry after a level-2 folder, both under a level-0 folder
C1_Witness ==
    /\ Len(ins) = 3
    /\ EntryIsFolder(1) /\ EntryLevel(1) = 0
    /\ EntryIsFolder(2) /\ EntryLevel(2) = 2
    /\ EntryLevel(3) = 1
    /\ ins[2].parent = ins[1].id
    /\ ins[3].parent = ins[1].id

Dup(j, k) ==
    /\ j < k
    /\ ins[j].parent = ins[k].parent
    /\ EntryName(j) = EntryName(k)

\* C7: of the lines that put the same name into the same container the last
\* one wins: the container holds its node (a file line leaves None, a folder
\* line the dict it created, empty when created); the dict of an overwritten
\* folder line is no longer in the tree and no later line is inserted into it
\* or below it; keys are unique in every dict.
C7_LastOccurrenceWins ==
    /\ \A k \in 1..Len(ins) :
         (~ \E m \in 1..Len(ins) : Dup(k, m)) =>
            /\ HasKey(heap[ins[k].parent], EntryName(k))
            /\ Get(heap[ins[k].parent], EntryName(k)) =
                 IF EntryIsFolder(k) THEN Ref(ins[k].id) ELSE NoneV
    /\ \A j \in 1..Len(ins), k \in 1..Len(ins) :
         (Dup(j, k) /\ EntryIsFolder(j)) =>
            /\ ins[j].id \notin Reach(heap, RootId)
            /\ \A m \in k..Len(ins) : ins[m].parent \notin Reach(heap, ins[j].id)
    /\ (ins # <<>> /\ Last(ins).id # 0) => heap[Last(ins).id] = <<>>
    /\ \A c \in 1..Len(heap) : \A a \in 1..Len(heap[c]), b \in 1..Len(heap[c]) :
         heap[c][a][1] = heap[c][b][1] => a = b
    /\ \A k \in 1..Len(ins) :
         ins[k].parent \in 1..Len(heap) /\ (~ EntryIsFolder(k) => ins[k].id = 0)

\* a folder line with a child, overwritten by a later line of the same name
C7_Witness ==
    /\ pc = "parsed"
    /\ \E j \in 1..Len(ins), k \in 1..Len(ins) :
         Dup(j, k) /\ EntryIsFolder(j) /\ heap[ins[j].id] # <<>>

AllIn(s, cs) == \A k \in 1..Len(s) : s[k] \in cs

\* s is t without its leading and trailing characters of cs
IsStripOf(s, t, cs) ==
    /\ \E a \in 0..Len(t), b \in 0..Len(t) :
         /\ a + Len(s) + b = Len(t)
         /\ s = SubSeq(t, a + 1, a + Len(s))
         /\ AllIn(SubSeq(t, 1, a), cs)
         /\ AllIn(SubSeq(t, Len(t) - b + 1, Len(t)), cs)
    /\ s # <<>> => (Head(s) \notin cs /\ Last(s) \notin cs)

\* s is t without its trailing characters of cs
IsRStripOf(s, t, cs) ==
    /\ Len(s) <= Len(t)
    /\ s = SubSeq(t, 1, Len(s))
    /\ AllIn(SubSeq(t, Len(s) + 1, Len(t)), cs)
    /\ s # <<>> => Last(s) \notin cs

\* the contiguous pieces of a text
Pieces(t) == { SubSeq(t, a, b) : a \in 1..(Len(t) + 1), b \in 0..Len(t) }

NonBlank(line) == ~ AllIn(line, Whitespace)
FirstNonBlank ==
    tree_str[CHOOSE k \in 1..Len(tree_str) :
        /\ NonBlank(tree_str[k])
        /\ \A j \in 1..(k - 1) : ~ NonBlank(tree_str[j])]

Returned == pc = "parsed" /\ \E k \in 1..Len(tree_str) : NonBlank(tree_str[k])

\* C8 as stated: the root name is the trimmed first non-blank line without
\* its trailing slashes, leading characters kept, and it is the only
\* top-level key, mapped to a container.
C8_RootKeepsLeadingSlash ==
    Returned =>
        /\ Len(tree) = 1
        /\ tree[1][2].t = "dict"
        /\ \E t \in Pieces(FirstNonBlank) :
             /\ IsStripOf(t, FirstNonBlank, Whitespace)
             /\ IsRStripOf(tree[1][1], t, {"/"})

\* C8 amended: the root name is the trimmed first non-blank line without its
\* leading and its trailing slashes, and it is the only top-level key, mapped
\* to a container.
C8_RootStripsSlashesBothEnds ==
    Returned =>
        /\ Len(tree) = 1
        /\ tree[1][2].t = "dict"
        /\ \E t \in Pieces(FirstNonBlank) :
             /\ IsStripOf(t, FirstNonBlank, Whitespace)
             /\ IsStripOf(tree[1][1], t, {"/"})

\* a root line that starts with a slash has been parsed
C8_Witness ==
    /\ Returned
    /\ \E k \in 1..Len(FirstNonBlank) :
         /\ FirstNonBlank[k] = "/"
         /\ AllIn(SubSeq(FirstNonBlank, 1, k - 1), Whitespace)
    /\ tree # <<>>

\* C10: in the loop the stack is never empty, its bottom is the root
\* container at depth 0, depths grow strictly from bottom to top, every entry
\* is a child of the entry below it in the tree under construction; no line
\* takes the fall-back branch and every line goes into a container that the
\* root reaches.
C10_StackInvariant ==
    pc = "parse_loop" =>
        /\ stack # <<>>
        /\ stack[1] = <<0, RootId>>
        /\ \A k \in 1..(Len(stack) - 1) :
             /\ stack[k][1] < stack[k + 1][1]
             /\ \E j \in 1..Len(heap[stack[k][2]]) :
                  heap[stack[k][2]][j][2] = Ref(stack[k + 1][2])
        /\ \A k \in 1..Len(ins) : ~ ins[k].fallback
        /\ ins # <<>> => Last(ins).parent \in Reach(heap, RootId)

\* a line has popped two entries and the stack is down to the root entry
C10_Witness ==
    /\ pc = "parse_loop"
    /\ Len(ins) = 3
    /\ EntryIsFolder(1) /\ EntryIsFolder(2)
    /\ ins[2].parent = ins[1].id
    /\ EntryLevel(3) = 0
    /\ Len(stack) = IF EntryIsFolder(3) THEN 2 ELSE 1

(***************************************************************************)
(* Properties of create_structure and build_actual_tree.                   *)
(***************************************************************************)
\* a later call of create_structure is running or is over
InLaterCall ==
    \/ calls >= 1 /\ pc \in {"create", "raised"}
    \/ calls >= 2 /\ pc \in {"call", "returned"}

\* C2: after a call that completed without error, a call with the same
\* arguments raises nothing and leaves every directory, file and content as
\* it was; and no call changes a file that existed when it started.
C2_Idempotent ==
    /\ InLaterCall => (pc # "raised" /\ exc = "" /\ fs = fs0)
    /\ \A e \in fs0 : e[2] # "dir" => e \in fs

\* a second call has returned where the first call had created a file next
\* to a file with content
C2_Witness ==
    /\ calls = 2
    /\ pc = "returned"
    /\ \E e \in fs : e[2] = "empty"
    /\ \E e \in fs : e[2] = "data"

\* the names and the Container/Leaf classes of a structure, by path
RECURSIVE Shape(_, _)
Shape(items, at) ==
    UNION { {<<Append(at, items[k][1]),
               IF items[k][2] = NoneV THEN "Leaf" ELSE "Container">>}
            \cup (IF items[k][2] = NoneV THEN {}
                  ELSE Shape(items[k][2].items, Append(at, items[k][1])))
            : k \in 1..Len(items) }

SingleRoot(s) == Len(s) = 1 /\ s[1][2] # NoneV

\* every name, at every depth, is one path component
RECURSIVE PlainNames(_)
PlainNames(items) ==
    \A k \in 1..Len(items) :
        /\ Components(items[k][1]) = <<items[k][1]>>
        /\ items[k][2] # NoneV => PlainNames(items[k][2].items)

\* the snapshot of join(T, r) was taken after create_structure(S, T, True)
\* returned, S having the single root container r
RoundTrip ==
    /\ pc = "snapshotted"
    /\ create_files
    /\ SingleRoot(structure)
    /\ baseline.path = PathJoin(location, structure[1][1])

\* C3 as stated: the snapshot has the names and classes of S at every path.
C3_RoundTripAnyTarget ==
    RoundTrip => Shape(tree, <<>>) = Shape(structure, <<>>)

\* C3 amended: the snapshot has the names and classes of S at every path,
\* when join(T, r) did not exist before the call and every name of S is a
\* single path component.
C3_RoundTripFreshTarget ==
    ( /\ RoundTrip
      /\ calls = 1
      /\ ~ Exists(fs0, PathJoin(location, structure[1][1]))
      /\ PlainNames(structure) )
    => Shape(tree, <<>>) = Shape(structure, <<>>)

\* a round trip on a fresh target, of a structure with a leaf and a
\* container below the root
C3_Witness ==
    /\ RoundTrip
    /\ calls = 1
    /\ ~ Exists(fs0, PathJoin(location, structure[1][1]))
    /\ PlainNames(structure)
    /\ \E e \in Shape(structure, <<>>) : Len(e[1]) = 3 /\ e[2] = "Leaf"
    /\ \E e \in Shape(structure, <<>>) : Len(e[1]) = 2 /\ e[2] = "Container"

\* the paths of the Containers of a structure materialized under target
RECURSIVE ContainerPaths(_, _)
ContainerPaths(items, target) ==
    UNION { IF items[k][2] = NoneV THEN {}
            ELSE {PathJoin(target, items[k][1])}
                 \cup ContainerPaths(items[k][2].items,
                                     PathJoin(target, items[k][1]))
            : k \in 1..Len(items) }

RECURSIVE HasLeaf(_)
HasLeaf(items) ==
    \E k \in 1..Len(items) :
        items[k][2] = NoneV \/ HasLeaf(items[k][2].items)

\* C4: with create_files false no regular file is ever created, the only
\* directories created are those of Containers (and the directories on the
\* way to them), and when the call returns every Container is a directory.
C4_FoldersOnly ==
    ~ create_files =>
        /\ { e \in fs : e[2] # "dir" } = { e \in fs0 : e[2] # "dir" }
        /\ fs \ fs0 \subseteq
             UNION { { <<Prefix(p, k), "dir">> : k \in 1..Len(p) } :
                       p \in ContainerPaths(structure, location) }
        /\ pc = "returned" =>
             \A p \in ContainerPaths(structure, location) : IsDir(fs, p)

\* a folders-only call has returned, for a structure with a leaf, and has
\* created a directory
C4_Witness ==
    /\ ~ create_files
    /\ pc = "returned"
    /\ calls = 1
    /\ HasLeaf(structure)
    /\ fs # fs0

\* the dict lists its Containers first, in lexicographic order, and then
\* its Leaves, in lexicographic order, at every depth
RECURSIVE DirsThenFiles(_)
DirsThenFiles(items) ==
    /\ \A j \in 1..Len(items), k \in 1..Len(items) :
         j < k =>
            \/ items[j][2] # NoneV /\ items[k][2] = NoneV
            \/ /\ (items[j][2] = NoneV) = (items[k][2] = NoneV)
               /\ LexLess(items[j][1], items[k][1])
    /\ \A k \in 1..Len(items) :
         items[k][2] # NoneV => DirsThenFiles(items[k][2].items)

\* the dict lists its keys in lexicographic order, at every depth
RECURSIVE Lexicographic(_)
Lexicographic(items) ==
    /\ \A j \in 1..Len(items), k \in 1..Len(items) :
         j < k => LexLess(items[j][1], items[k][1])
    /\ \A k \in 1..Len(items) :
         items[k][2] # NoneV => Lexicographic(items[k][2].items)

\* C9 as stated: a snapshot lists the siblings of every directory in
\* lexicographic order of their names.
C9_SiblingsLexicographic ==
    (pc = "snapshotted" /\ tree # <<>>) => Lexicographic(tree[1][2].items)

\* C9 amended: a snapshot lists, for every directory, the subdirectories in
\* lexicographic order and then the files in lexicographic order, and a
\* second snapshot of the same folder returns the same dict, key order
\* included, in whatever order the directory scans list the names.
C9_DirsThenFilesSorted ==
    /\ [](pc = "snapshotted" /\ tree # <<>> => DirsThenFiles(tree[1][2].items))
    /\ [][(pc = "snapshotted" /\ pc' = "snapshotted" /\ baseline' = baseline)
            => tree' = tree]_vars

\* a snapshot of a directory that holds two subdirectories and, under the
\* first, a file
C9_Witness ==
    /\ pc = "snapshotted"
    /\ tree # <<>>
    /\ Len(tree[1][2].items) >= 2
    /\ \E j \in 1..Len(tree[1][2].items), k \in 1..Len(tree[1][2].items) :
         /\ j # k
         /\ tree[1][2].items[j][2] # NoneV
         /\ tree[1][2].items[k][2] # NoneV
         /\ tree[1][2].items[j][2].items # <<>>

(***************************************************************************)
(* Properties of main.                                                     *)
(***************************************************************************)
\* C5: a run whose baseline argument is an existing directory does not end
\* with the baseline read error: it snapshots the directory and goes on to
\* create_structure, ending with the success or the creation message.
C5_DirectoryBaselineIsSnapshotted ==
    (pc = "exit" /\ IsDirArg(fs, baseline)) =>
        /\ ErrRead \notin { printed[k] : k \in 1..Len(printed) }
        /\ printed # <<>>
        /\ Last(printed) \in {Success, ErrCreate}
        /\ structure # <<>>

\* C6: an exception raised in create_structure never leaves main: the next
\* step is the handler, which prints the creation error, prints no success
\* message and touches no file; and no step of a run removes or changes an
\* entry of the filesystem.
C6_FailureCaughtNoRollback ==
    /\ [](pc # "crashed")
    /\ [][pc = "raised" =>
            /\ pc' = "exit"
            /\ printed' = Append(printed, ErrCreate)
            /\ fs' = fs]_vars
    /\ [](\A k \in 1..Len(printed) :
            printed[k] = ErrCreate => (k = Len(printed) /\ pc = "exit"))
    /\ [](Success \in { printed[k] : k \in 1..Len(printed) }
            => ErrCreate \notin { printed[k] : k \in 1..Len(printed) })
    /\ [][fs \subseteq fs']_vars
    /\ [](fs0 \subseteq fs)

\* a run has ended with the creation error after creating a directory
C6_Witness ==
    /\ pc = "exit"
    /\ printed = <<ErrCreate>>
    /\ fs # fs0
    /\ \E e \in fs \ fs0 : e[2] = "dir"

====
